---------------------------- MODULE Spec2Model ----------------------------
(***************************************************************************)
(* A model of fix_warnings.py: the script runs `cargo check`, keeps the    *)
(* output lines that contain "warning:", derives the set of files named by *)
(* the "--> path:" markers of those lines, and rewrites every such file    *)
(* twice (fix_unused_imports, then fix_unused_variables) before running    *)
(* the checker again to print the remaining count.                         *)
(*                                                                         *)
(* Texts are TLA+ strings, handled character by character with Len, SubSeq *)
(* and \o, so that the substring tests and the regular expressions of the  *)
(* script are computed as Python computes them.  A TLA+ string literal     *)
(* cannot hold the backquote character, so the backquote of the checker's  *)
(* messages is written as the apostrophe throughout (see Tick); no text of *)
(* the model uses the apostrophe for anything else.                        *)
(***************************************************************************)
EXTENDS Integers, Sequences, FiniteSets, TLC

VARIABLES
    pc,            \* position of main(): "start", "collected", "loop", "in_file", "imports_done", "done", "raised"; "harness" under PatchSpec
    disk,          \* the filesystem: path -> [exists, text, mode]
    disk0,         \* the filesystem when the run began (history)
    warnings,      \* main's `warnings` list (line 81)
    files_to_fix,  \* main's `files_to_fix` set (lines 86-91)
    todo,          \* the files the for loop of line 96 has not visited yet
    cur,           \* the loop variable file_path (a one-element sequence), <<>> outside the loop body
    printed,       \* what main printed, as <<tag, value>> pairs in order
    spawned,       \* per checker invocation, whether subprocess.run started the checker
    output,        \* per checker invocation, the text stdout + stderr that main saw
    nread,         \* path -> number of times the file was opened for reading and read
    nwrite,        \* path -> number of times the file was opened for writing and written
    visited,       \* the files the loop body has finished with, in order
    hist           \* one record per completed call of a fix_* function: [op, path, before, after]

vars == <<pc, disk, disk0, warnings, files_to_fix, todo, cur, printed, spawned,
          output, nread, nwrite, visited, hist>>

---------------------------------------------------------------------------
(* Characters and substrings *)

\* The backquote character of the checker's messages (see the header).
Tick == "'"

\* Python's \w restricted to ASCII: letters, digits and the underscore.
WordChars ==
    {"a","b","c","d","e","f","g","h","i","j","k","l","m","n","o","p","q","r","s",
     "t","u","v","w","x","y","z","A","B","C","D","E","F","G","H","I","J","K","L",
     "M","N","O","P","Q","R","S","T","U","V","W","X","Y","Z","0","1","2","3","4",
     "5","6","7","8","9","_"}

\* The ASCII characters str.strip() removes.
Whitespace == {" ", "\t", "\n", "\r", "\f"}

\* s[i], 1-based; "" outside the text.
At(s, i) == IF i >= 1 /\ i <= Len(s) THEN SubSeq(s, i, i) ELSE ""

\* s[from:], 1-based.
From(s, from) == SubSeq(s, from, Len(s))

\* Whether t occurs in s at position i.
OccursAt(s, t, i) ==
    /\ i >= 1
    /\ i + Len(t) - 1 <= Len(s)
    /\ SubSeq(s, i, i + Len(t) - 1) = t

\* Python's `t in s`.
Contains(s, t) == \E i \in 1..(Len(s) - Len(t) + 1) : OccursAt(s, t, i)

Min(S) == CHOOSE m \in S : \A n \in S : m <= n
Max(S) == CHOOSE m \in S : \A n \in S : m >= n

\* The first position >= from where t occurs in s, 0 if there is none.
Find(s, t, from) ==
    LET hits == {i \in from..(Len(s) - Len(t) + 1) : OccursAt(s, t, i)}
    IN  IF hits = {} THEN 0 ELSE Min(hits)

\* s.split('\n'): the pieces between line feeds; "" gives <<"">>.
RECURSIVE SplitLines(_)
SplitLines(s) ==
    LET i == Find(s, "\n", 1)
    IN  IF i = 0 THEN <<s>>
        ELSE <<SubSeq(s, 1, i - 1)>> \o SplitLines(From(s, i + 1))

\* s.strip().
Strip(s) ==
    LET keep == {i \in 1..Len(s) : At(s, i) \notin Whitespace}
    IN  IF keep = {} THEN "" ELSE SubSeq(s, Min(keep), Max(keep))

\* re.search(prefix + "([^d]+)" + d, s) for a literal prefix and a one-character
\* delimiter d: <<group(1)>> of the leftmost match, <<>> when nothing matches.
\* At a start i the greedy [^d]+ takes every character up to the next d, and
\* needs at least one.
ReSearchQuoted(s, prefix, d) ==
    LET starts == {i \in 1..Len(s) :
                      /\ OccursAt(s, prefix, i)
                      /\ At(s, i + Len(prefix)) # ""
                      /\ At(s, i + Len(prefix)) # d
                      /\ Find(s, d, i + Len(prefix)) # 0}
    IN  IF starts = {} THEN <<>>
        ELSE LET p == Min(starts) + Len(prefix)
             IN  <<SubSeq(s, p, Find(s, d, p) - 1)>>

---------------------------------------------------------------------------
(* The rewriting of a file's text *)

\* A variant of SubLiteral that replaces the first occurrence only (count=1).
SubLiteralFirst(s, pat, rep, pos) ==
    LET i == Find(s, pat, pos)
    IN  IF i = 0 THEN From(s, pos)
        ELSE SubSeq(s, pos, i - 1) \o rep \o From(s, i + Len(pat))

\* re.sub(re.escape(pat), rep, s) from position pos on, for a literal, non-empty
\* pat and a replacement without backslashes: every leftmost non-overlapping
\* occurrence is replaced.
RECURSIVE SubLiteral(_, _, _, _)
SubLiteral(s, pat, rep, pos) ==
    LET i == Find(s, pat, pos)
    IN  IF i = 0 THEN From(s, pos)
        ELSE SubSeq(s, pos, i - 1) \o rep \o SubLiteral(s, pat, rep, i + Len(pat))

\* Where a match of  use ([^;]+{NAME[^}]*});  that starts at i ends, 0 if none
\* starts there.  [^;]+ is greedy: of the lengths k it can take, the longest
\* after which "{NAME", then everything up to the next "}", then "};" follow.
BraceMatchEnd(s, name, i) ==
    LET j0 == i + 4
        semi == Find(s, ";", j0)
        run == IF semi = 0 THEN Len(s) - j0 + 1 ELSE semi - j0
        close(k) == Find(s, "}", j0 + k + 1 + Len(name))
        ks == {k \in 1..run :
                  /\ OccursAt(s, "{" \o name, j0 + k)
                  /\ close(k) # 0
                  /\ At(s, close(k) + 1) = ";"}
    IN  IF OccursAt(s, "use ", i) /\ ks # {} THEN close(Max(ks)) + 1 ELSE 0

\* re.sub of the brace pattern (lines 42-44) from position pos on: each match
\* becomes "// use " + group(1) + ";", group(1) being the match without its
\* leading "use " and its final ";".
RECURSIVE SubBrace(_, _, _)
SubBrace(s, name, pos) ==
    LET starts == {i \in pos..Len(s) : BraceMatchEnd(s, name, i) # 0}
    IN  IF starts = {} THEN From(s, pos)
        ELSE LET i == Min(starts)
                 e == BraceMatchEnd(s, name, i)
             IN  SubSeq(s, pos, i - 1) \o "// use " \o SubSeq(s, i + 4, e - 1) \o ";"
                     \o SubBrace(s, name, e + 1)

\* Lines 37-44: the two substitutions for one import name.
comment_import(content, import_name) ==
    SubBrace(SubLiteral(content, "use " \o import_name \o ";",
                        "// use " \o import_name \o ";", 1),
             import_name, 1)

\* A variant of Boundary that does not count the underscore as a word character.
BoundaryNoUnderscore(s, i) ==
    (At(s, i - 1) \in WordChars \ {"_"}) # (At(s, i) \in WordChars \ {"_"})

\* Python's \b between s[i-1] and s[i].
Boundary(s, i) == (At(s, i - 1) \in WordChars) # (At(s, i) \in WordChars)

\* A variant of WordMatchAt without the two \b: NAME anywhere.
WordMatchAnywhere(s, name, i) == OccursAt(s, name, i)

\* Whether \bNAME\b matches at i.
WordMatchAt(s, name, i) ==
    /\ OccursAt(s, name, i)
    /\ Boundary(s, i)
    /\ Boundary(s, i + Len(name))

\* Lines 66-68: re.sub(r"\bNAME\b", "_NAME", content) from position pos on.
RECURSIVE SubWord(_, _, _)
SubWord(s, name, pos) ==
    LET starts == {i \in pos..Len(s) : WordMatchAt(s, name, i)}
    IN  IF starts = {} THEN From(s, pos)
        ELSE LET i == Min(starts)
             IN  SubSeq(s, pos, i - 1) \o "_" \o name \o SubWord(s, name, i + Len(name))

prefix_variable(content, var_name) == SubWord(content, var_name, 1)

---------------------------------------------------------------------------
(* The functions of the script *)

\* Lines 10-18: (stdout, stderr) of the checker, or ("", "") when subprocess.run
\* raised and the except clause caught it.
run_cargo_check(started, stdout, stderr) ==
    IF started THEN <<stdout, stderr>> ELSE <<"", "">>

\* A variant of warning_lines that keeps every line.
all_lines(all_output) == SplitLines(all_output)

\* The comprehension of lines 81 and 106: the lines that contain "warning:".
warning_lines(all_output) ==
    SelectSeq(SplitLines(all_output), LAMBDA line : Contains(line, "warning:"))

\* Line 81: those lines, each stripped.
collect_warnings(all_output) ==
    LET raw == warning_lines(all_output)
    IN  [i \in 1..Len(raw) |-> Strip(raw[i])]

\* Lines 86-91: the paths after "--> " in the warnings that hold "-->".
extract_files(ws) ==
    {ReSearchQuoted(ws[i], "--> ", ":")[1] :
        i \in {j \in 1..Len(ws) : /\ Contains(ws[j], "-->")
                                  /\ ReSearchQuoted(ws[j], "--> ", ":") # <<>>}}

\* A variant of file_warnings that does not look for the path.
file_warnings_any_path(ws, file_path, marker) ==
    SelectSeq(ws, LAMBDA w : Contains(w, marker))

\* Lines 29 and 58: the warnings that contain the path and the category marker.
file_warnings(ws, file_path, marker) ==
    SelectSeq(ws, LAMBDA w : Contains(w, file_path) /\ Contains(w, marker))

\* os.path.exists(file_path).
path_exists(d, file_path) == file_path \in DOMAIN d /\ d[file_path].exists

\* Lines 31-44: the loop over the file's import warnings, from the k-th on.
RECURSIVE imports_loop(_, _, _)
imports_loop(content, fw, k) ==
    IF k > Len(fw) THEN content
    ELSE LET match == ReSearchQuoted(fw[k], "unused import: " \o Tick, Tick)
         IN  imports_loop(IF match # <<>> THEN comment_import(content, match[1])
                          ELSE content,
                          fw, k + 1)

\* Lines 60-68: the loop over the file's variable warnings, from the k-th on.
RECURSIVE variables_loop(_, _, _)
variables_loop(content, fw, k) ==
    IF k > Len(fw) THEN content
    ELSE LET match == ReSearchQuoted(fw[k], "unused variable: " \o Tick, Tick)
         IN  variables_loop(IF match # <<>> THEN prefix_variable(content, match[1])
                            ELSE content,
                            fw, k + 1)

\* A variant of patch_file without the os.path.exists test: opening a missing
\* file for reading raises.
patch_file_unchecked(d, file_path, new_text) ==
    IF ~(file_path \in DOMAIN d /\ d[file_path].exists) \/ d[file_path].mode = "none"
    THEN [disk |-> d, status |-> "raised", read |-> 0, wrote |-> 0]
    ELSE IF d[file_path].mode = "r"
    THEN [disk |-> d, status |-> "raised", read |-> 1, wrote |-> 0]
    ELSE [disk |-> [d EXCEPT ![file_path].text = new_text],
          status |-> "ok", read |-> 1, wrote |-> 1]

\* A call of a fix_* function: what it leaves on disk, how it ended ("skipped":
\* the early return of lines 23 and 52; "raised": open() raised; "ok"), and
\* whether it read and wrote the file.  open(path, 'r') raises on a file of mode
\* "none"; open(path, 'w') raises on a file of mode "none" or "r", and leaves
\* the file as it was.
patch_file(d, file_path, new_text) ==
    IF ~path_exists(d, file_path)
    THEN [disk |-> d, status |-> "skipped", read |-> 0, wrote |-> 0]
    ELSE IF d[file_path].mode = "none"
    THEN [disk |-> d, status |-> "raised", read |-> 0, wrote |-> 0]
    ELSE IF d[file_path].mode = "r"
    THEN [disk |-> d, status |-> "raised", read |-> 1, wrote |-> 0]
    ELSE [disk |-> [d EXCEPT ![file_path].text = new_text],
          status |-> "ok", read |-> 1, wrote |-> 1]

\* Lines 20-47.
fix_unused_imports(d, file_path, ws) ==
    patch_file(d, file_path,
               IF path_exists(d, file_path)
               THEN imports_loop(d[file_path].text,
                                 file_warnings(ws, file_path, "unused import"), 1)
               ELSE "")

\* Lines 49-71.
fix_unused_variables(d, file_path, ws) ==
    patch_file(d, file_path,
               IF path_exists(d, file_path)
               THEN variables_loop(d[file_path].text,
                                   file_warnings(ws, file_path, "unused variable"), 1)
               ELSE "")

---------------------------------------------------------------------------
(* The inputs of a run *)

\* The paths the checker's output names.  "a.rs" is a substring of "ba.rs".
Paths == {"a.rs", "b.rs", "ba.rs"}

\* rustc's own layout: the message on one line, the location on the next.
CargoTwoFiles ==
    "warning: unused import: 'S'\n --> a.rs:1:5\nwarning: unused variable: 'c'\n  --> b.rs:2:9\n"

\* The same two diagnostics with message and location on one line each.
OneLineTwoFiles ==
    "warning: unused import: 'S' --> a.rs:1:5\nwarning: unused variable: 'c' --> b.rs:2:9\n"

\* One-line diagnostics for two files, one path a substring of the other.
OneLineNested ==
    "  warning: unused import: 'S' --> a.rs:1:5\nwarning: unused variable: 'c' --> ba.rs:2:9\n"

\* Diagnostics without a quoted symbol, or of another kind.
OneLineOther ==
    "warning: unused variable: c --> a.rs:1:1\nwarning: dead code --> b.rs:3:1\nnote: --> ba.rs:1:1\n"

\* No warning at all.
NoWarnings == "    Finished dev [unoptimized] target(s)\n"

\* What the checker may write to its standard error and standard output.
Stderrs == {CargoTwoFiles, OneLineTwoFiles, OneLineNested, OneLineOther, NoWarnings}
Stdouts == {"", "cargo: "}

\* Two file texts with imports, variables and look-alikes of both.
TextA == "use S;\npub use S;\nlet c = 1;\n"
TextB == "use a::{S, T};\nlet c = discount(c);\n"

absent == [exists |-> FALSE, text |-> "", mode |-> "none"]
file(text, mode) == [exists |-> TRUE, text |-> text, mode |-> mode]

\* What a path may be at the start of a run: nothing, a file the script can
\* read and write, a read-only file, or a file it cannot open at all.
DiskEntries ==
    {absent, file(TextA, "rw"), file(TextB, "rw"), file(TextA, "r"), file(TextB, "none")}

zero == [p \in Paths |-> 0]

---------------------------------------------------------------------------
(* main() *)

Init ==
    /\ pc = "start"
    /\ disk \in [Paths -> DiskEntries]
    /\ disk0 = disk
    /\ warnings = <<>>
    /\ files_to_fix = {}
    /\ todo = {}
    /\ cur = <<>>
    /\ printed = <<>>
    /\ spawned = <<>>
    /\ output = <<>>
    /\ nread = zero
    /\ nwrite = zero
    /\ visited = <<>>
    /\ hist = <<>>

\* Lines 77-83: the first checker invocation, the warnings and their count.
Collect ==
    /\ pc = "start"
    /\ \E started \in BOOLEAN, stdout \in Stdouts, stderr \in Stderrs :
          LET r == run_cargo_check(started, stdout, stderr)
              all_output == r[1] \o r[2]
          IN  /\ spawned' = Append(spawned, started)
              /\ output' = Append(output, all_output)
              /\ warnings' = collect_warnings(all_output)
              /\ printed' = Append(printed, <<"found", Len(collect_warnings(all_output))>>)
    /\ pc' = "collected"
    /\ UNCHANGED <<disk, disk0, files_to_fix, todo, cur, nread, nwrite, visited, hist>>

\* Lines 86-93: the file set and its size.
Index ==
    /\ pc = "collected"
    /\ files_to_fix' = extract_files(warnings)
    /\ todo' = extract_files(warnings)
    /\ printed' = Append(printed, <<"files", Cardinality(extract_files(warnings))>>)
    /\ pc' = "loop"
    /\ UNCHANGED <<disk, disk0, warnings, cur, spawned, output, nread, nwrite, visited, hist>>

\* Lines 96-97: the loop takes the next file of the set, in no particular order.
NextFile ==
    /\ pc = "loop"
    /\ \E f \in todo :
          /\ cur' = <<f>>
          /\ todo' = todo \ {f}
          /\ printed' = Append(printed, <<"fixing", f>>)
    /\ pc' = "in_file"
    /\ UNCHANGED <<disk, disk0, warnings, files_to_fix, spawned, output, nread, nwrite,
                   visited, hist>>

\* The bookkeeping of a call r of a fix_* function on file f: an exception
\* leaves main() at once.
Called(op, f, r, next_pc) ==
    /\ disk' = r.disk
    /\ nread' = IF f \in Paths THEN [nread EXCEPT ![f] = @ + r.read] ELSE nread
    /\ nwrite' = IF f \in Paths THEN [nwrite EXCEPT ![f] = @ + r.wrote] ELSE nwrite
    /\ hist' = IF r.status = "ok"
               THEN Append(hist, [op |-> op, path |-> f,
                                  before |-> disk[f].text, after |-> r.disk[f].text])
               ELSE hist
    /\ pc' = IF r.status = "raised" THEN "raised" ELSE next_pc

\* Line 98.
FixImports ==
    /\ pc = "in_file"
    /\ Called("imports", cur[1], fix_unused_imports(disk, cur[1], warnings), "imports_done")
    /\ UNCHANGED <<disk0, warnings, files_to_fix, todo, cur, printed, spawned, output, visited>>

\* Line 99, and the end of the loop body.
FixVariables ==
    /\ pc = "imports_done"
    /\ Called("variables", cur[1], fix_unused_variables(disk, cur[1], warnings), "loop")
    /\ visited' = IF pc' = "loop" THEN Append(visited, cur[1]) ELSE visited
    /\ cur' = IF pc' = "loop" THEN <<>> ELSE cur
    /\ UNCHANGED <<disk0, warnings, files_to_fix, todo, printed, spawned, output>>

\* A variant of Recheck that starts another round while warnings remain.
RecheckAgain ==
    /\ pc = "loop"
    /\ todo = {}
    /\ Len(spawned) < 4
    /\ \E started \in BOOLEAN, stdout \in Stdouts, stderr \in Stderrs :
          LET r == run_cargo_check(started, stdout, stderr)
              all_output == r[1] \o r[2]
          IN  /\ spawned' = Append(spawned, started)
              /\ output' = Append(output, all_output)
              /\ warnings' = collect_warnings(all_output)
              /\ printed' = printed \o <<<<"completed", 0>>,
                                         <<"remaining", Len(warning_lines(all_output))>>>>
              /\ pc' = IF Len(warning_lines(all_output)) > 0 THEN "collected" ELSE "done"
    /\ UNCHANGED <<disk, disk0, files_to_fix, todo, cur, nread, nwrite, visited, hist>>

\* Lines 101-107: after the loop, the second checker invocation and its count.
Recheck ==
    /\ pc = "loop"
    /\ todo = {}
    /\ \E started \in BOOLEAN, stdout \in Stdouts, stderr \in Stderrs :
          LET r == run_cargo_check(started, stdout, stderr)
              all_output == r[1] \o r[2]
          IN  /\ spawned' = Append(spawned, started)
              /\ output' = Append(output, all_output)
              /\ printed' = printed \o <<<<"completed", 0>>,
                                         <<"remaining", Len(warning_lines(all_output))>>>>
    /\ pc' = "done"
    /\ UNCHANGED <<disk, disk0, warnings, files_to_fix, todo, cur, nread, nwrite, visited, hist>>

Next == Collect \/ Index \/ NextFile \/ FixImports \/ FixVariables \/ Recheck

Spec == Init /\ [][Next]_vars

---------------------------------------------------------------------------
(* The two fix_* functions called directly on one file, "a.rs", with a fixed
   list of warnings: the inputs are drawn from bounded sets of texts. *)

\* How many pieces an import text is made of, how long a variable text is, and
\* how many calls are made on the file.
MaxPieces == 3
MaxVarLen == 4
MaxCalls == 2

\* Every concatenation of at most n of the pieces.
RECURSIVE Texts(_, _)
Texts(pieces, n) ==
    IF n = 0 THEN {""}
    ELSE Texts(pieces, n - 1) \cup {t \o x : t \in Texts(pieces, n - 1), x \in pieces}

ImportPieces == {"use S;", "pub ", "// ", "use a::{S, T};", "\n", "use a::{T, S};"}
VarPieces == {"c", "d", "_", " "}

ImportNames == {"S"}
VarNames == {"c", "cd"}

ImportWarning(name) == "warning: unused import: '" \o name \o "' --> a.rs:1:5"
VarWarning(name) == "warning: unused variable: '" \o name \o "' --> a.rs:2:9"

\* The (text of a.rs, warnings) pairs the calls start from.
PatchCases ==
    {<<t, ws>> : t \in Texts(ImportPieces, MaxPieces),
                 ws \in {<<ImportWarning("S")>>,
                         <<VarWarning("c"), ImportWarning("S")>>}}
    \cup
    {<<t, ws>> : t \in Texts(VarPieces, MaxVarLen),
                 ws \in {<<VarWarning("c")>>, <<VarWarning("cd")>>,
                         <<ImportWarning("S"), VarWarning("c")>>}}

PatchInit ==
    /\ pc = "harness"
    /\ \E case \in PatchCases :
          /\ disk = [p \in Paths |-> IF p = "a.rs" THEN file(case[1], "rw") ELSE absent]
          /\ warnings = case[2]
    /\ disk0 = disk
    /\ files_to_fix = {"a.rs"}
    /\ todo = {}
    /\ cur = <<"a.rs">>
    /\ printed = <<>>
    /\ spawned = <<>>
    /\ output = <<>>
    /\ nread = zero
    /\ nwrite = zero
    /\ visited = <<>>
    /\ hist = <<>>

\* fix_unused_imports("a.rs", warnings).
CallFixImports ==
    /\ pc = "harness"
    /\ Len(hist) < MaxCalls
    /\ Called("imports", "a.rs", fix_unused_imports(disk, "a.rs", warnings), "harness")
    /\ UNCHANGED <<disk0, warnings, files_to_fix, todo, cur, printed, spawned, output, visited>>

\* fix_unused_variables("a.rs", warnings).
CallFixVariables ==
    /\ pc = "harness"
    /\ Len(hist) < MaxCalls
    /\ Called("variables", "a.rs", fix_unused_variables(disk, "a.rs", warnings), "harness")
    /\ UNCHANGED <<disk0, warnings, files_to_fix, todo, cur, printed, spawned, output, visited>>

PatchNext == CallFixImports \/ CallFixVariables

PatchSpec == PatchInit /\ [][PatchNext]_vars

---------------------------------------------------------------------------
(* Properties of a run of main(), checked under Spec *)

\* The value printed with the given tag, as a set (empty if it was not printed).
Printed(tag) == {printed[i][2] : i \in {j \in 1..Len(printed) : printed[j][1] = tag}}

\* C1: if the checker cannot be spawned, the collection yields the empty text;
\* when that happens at the first invocation, the printed count of diagnostics
\* is 0, the file set is empty, no file is read or written, and main() does not
\* raise; a failed second invocation prints a remaining count of 0.
C1_SpawnFailureIsNoOp ==
    /\ \A i \in 1..Len(spawned) : ~spawned[i] => output[i] = ""
    /\ (Len(spawned) >= 1 /\ ~spawned[1]) =>
          /\ warnings = <<>>
          /\ Printed("found") = {0}
          /\ files_to_fix = {}
          /\ pc \notin {"start", "collected"} => Printed("files") = {0}
          /\ nread = zero
          /\ nwrite = zero
          /\ disk = disk0
          /\ pc # "raised"
    /\ (Len(spawned) = 2 /\ ~spawned[2]) => Printed("remaining") = {0}

\* A run that ended normally although the checker could not be spawned either time.
C1_Witness ==
    /\ pc = "done"
    /\ spawned = <<FALSE, FALSE>>
    /\ Printed("found") = {0}
    /\ Printed("remaining") = {0}

\* C2: every run that has ended, normally or by an exception in the patch
\* loop, has printed both the 'before' and the 'after' warning count.
C2_AlwaysPrintsBothCounts ==
    pc \in {"done", "raised"} => Printed("found") # {} /\ Printed("remaining") # {}

\* C3: no file is read more than once or written more than once in a run.
C3_PatchedAtMostOnce == \A p \in Paths : nread[p] <= 1 /\ nwrite[p] <= 1

Selected(i, p, marker) ==
    LET fw == file_warnings(warnings, p, marker)
    IN  warnings[i] \in {fw[k] : k \in 1..Len(fw)}

Markers == {"unused import", "unused variable"}

\* C5 (as stated): no warning line is selected by the per-file filter for two
\* distinct paths of the file set.
C5_AtMostOneWorkItem ==
    \A i \in 1..Len(warnings), m \in Markers : \A p, q \in files_to_fix :
        p # q => ~(Selected(i, p, m) /\ Selected(i, q, m))

\* C5 (amended): a warning line is selected for a path of the file set only if
\* the path is a substring of the line and the category marker is too; so a
\* line is selected for two distinct paths only if both are substrings of it,
\* and a line in which one path of the file set occurs is selected for no other.
C5_SharedOnlyBySubstring ==
    \A i \in 1..Len(warnings), m \in Markers : \A p \in files_to_fix :
        Selected(i, p, m) =>
            /\ Contains(warnings[i], p)
            /\ Contains(warnings[i], m)
            /\ \A q \in files_to_fix \ {p} :
                  ~Contains(warnings[i], q) => ~Selected(i, q, m)

\* A line selected for "a.rs" and for "ba.rs", both in the file set.
C5_Witness ==
    /\ {"a.rs", "ba.rs"} \subseteq files_to_fix
    /\ \E i \in 1..Len(warnings), m \in Markers :
          Selected(i, "a.rs", m) /\ Selected(i, "ba.rs", m)

\* The checker outputs that report an unused import S in a.rs and an unused
\* variable c in b.rs.
ReportsTwoFiles == {CargoTwoFiles, OneLineTwoFiles}

\* C6: when the checker reports an unused import in one existing file and an
\* unused variable in another, then at the end of the run the 'before' count is
\* non-zero, the file set has two files, the import is commented out in the
\* first file and the variable is prefixed in the second.
C6_EndToEnd ==
    ( /\ pc = "done"
      /\ output[1] \in ReportsTwoFiles
      /\ disk0["a.rs"] = file(TextA, "rw")
      /\ disk0["b.rs"] = file(TextB, "rw") ) =>
        /\ \A n \in Printed("found") : n > 0
        /\ Cardinality(files_to_fix) = 2
        /\ Printed("files") = {2}
        /\ disk["a.rs"].text = "// use S;\npub // use S;\nlet c = 1;\n"
        /\ disk["b.rs"].text = "use a::{S, T};\nlet _c = discount(_c);\n"

\* C10: a path of the file set that does not exist is never read, written or
\* created, and no exception is raised on it: an exception, if any, is raised
\* on a file that existed, and the loop goes on to the next file.
C10_MissingFileSkipped ==
    /\ \A p \in Paths :
          ~disk0[p].exists => disk[p] = disk0[p] /\ nread[p] = 0 /\ nwrite[p] = 0
    /\ \A p \in Paths : disk[p].exists = disk0[p].exists
    /\ pc = "raised" => disk0[cur[1]].exists
    /\ \A k \in 1..Len(hist) : disk0[hist[k].path].exists

\* A finished run that visited a missing file and, after it, patched an existing one.
C10_Witness ==
    /\ pc = "done"
    /\ \E i, j \in 1..Len(visited) :
          /\ i < j
          /\ ~disk0[visited[i]].exists
          /\ disk0[visited[j]].exists
          /\ nwrite[visited[j]] > 0

---------------------------------------------------------------------------
(* Properties of the two passes, checked under PatchSpec *)

\* s with ins put in front of each position of P.
RECURSIVE InsertAll(_, _, _, _)
InsertAll(s, P, ins, i) ==
    IF i > Len(s) THEN ""
    ELSE (IF i \in P THEN ins ELSE "") \o At(s, i) \o InsertAll(s, P, ins, i + 1)

\* The positions where t occurs in s.
Occurrences(s, t) == {i \in 1..Len(s) : OccursAt(s, t, i)}

Lines(ws) == {ws[i] : i \in 1..Len(ws)}

\* The warnings report the import `name`, and no other import.
OnlyImportWarning(name) ==
    Lines(warnings) \cap {ImportWarning(n) : n \in ImportNames} = {ImportWarning(name)}

\* The warnings report the variable `name`, and no other variable.
OnlyVarWarning(name) ==
    Lines(warnings) \cap {VarWarning(n) : n \in VarNames} = {VarWarning(name)}

\* The occurrences of "use S;" that are a statement of their own: at the start
\* of the text or right after a line feed or the ";" of the statement before.
StatementStarts(s, name) ==
    {i \in Occurrences(s, "use " \o name \o ";") : At(s, i - 1) \in {"", "\n", ";"}}

\* Whether a brace group  use ...{NAME...};  starts at i: "use ", then at least
\* one character and no ";" up to a "{NAME", then a "}" followed by ";".
BraceGroupAt(s, name, i) ==
    /\ OccursAt(s, "use ", i)
    /\ \E j \in (i + 5)..Len(s) :
          /\ OccursAt(s, "{" \o name, j)
          /\ \A x \in (i + 4)..(j - 1) : At(s, x) # ";"
          /\ \E q \in (j + 1 + Len(name))..Len(s) : At(s, q) = "}" /\ At(s, q + 1) = ";"

\* C7 (as stated): on a file that contains the statement `use S;` the import
\* pass puts "// " in front of that statement and changes nothing else, also
\* when the text `use S;` occurs inside a longer statement such as `pub use S;`
\* or is already commented out.  (Stated for the files without a brace group
\* of S, which the pass's second pattern is there to rewrite.)
C7_OnlyTheStatementRewritten ==
    \A k \in 1..Len(hist) : \A name \in ImportNames :
        ( /\ hist[k].op = "imports"
          /\ OnlyImportWarning(name)
          /\ StatementStarts(hist[k].before, name) # {}
          /\ \A i \in 1..Len(hist[k].before) : ~BraceGroupAt(hist[k].before, name, i) ) =>
            hist[k].after =
                InsertAll(hist[k].before, StatementStarts(hist[k].before, name), "// ", 1)

\* C7 (amended): the import pass rewrites every occurrence of the text
\* `use S;` to `// use S;`, wherever it stands, and also comments out brace
\* groups `use ...{S...};`; the whole change to the file is "// " inserted in
\* front of such texts.
C7_EveryOccurrenceCommented ==
    \A k \in 1..Len(hist) : \A name \in ImportNames :
        (hist[k].op = "imports" /\ OnlyImportWarning(name)) =>
            LET b == hist[k].before
                lit == Occurrences(b, "use " \o name \o ";")
                grp == {i \in 1..Len(b) : BraceGroupAt(b, name, i)}
            IN  \E P \in SUBSET (lit \cup grp) :
                    /\ lit \subseteq P
                    /\ hist[k].after = InsertAll(b, P, "// ", 1)

\* An import pass on a text that has `use S;` as a statement and inside
\* `pub use S;`, and that changed the text.
C7_Witness ==
    \E k \in 1..Len(hist) :
        /\ hist[k].op = "imports"
        /\ OnlyImportWarning("S")
        /\ StatementStarts(hist[k].before, "S") # {}
        /\ Contains(hist[k].before, "pub use S;")
        /\ Contains(hist[k].after, "pub // use S;")

\* The whole-word occurrences of name in s: no word character before or after.
WholeWordStarts(s, name) ==
    {i \in Occurrences(s, name) :
        At(s, i - 1) \notin WordChars /\ At(s, i + Len(name)) \notin WordChars}

\* C8: the variable pass puts "_" in front of every whole-word occurrence of V
\* and changes nothing else; an occurrence of V inside a longer identifier
\* stays as it is.
C8_WholeWordsPrefixed ==
    \A k \in 1..Len(hist) : \A name \in VarNames :
        (hist[k].op = "variables" /\ OnlyVarWarning(name)) =>
            hist[k].after =
                InsertAll(hist[k].before, WholeWordStarts(hist[k].before, name), "_", 1)

\* A variable pass on a text with a whole-word occurrence of V and an
\* occurrence inside a longer identifier.
C8_Witness ==
    \E k \in 1..Len(hist) : \E name \in VarNames :
        /\ hist[k].op = "variables"
        /\ OnlyVarWarning(name)
        /\ WholeWordStarts(hist[k].before, name) # {}
        /\ Occurrences(hist[k].before, name) \ WholeWordStarts(hist[k].before, name) # {}
        /\ hist[k].after # hist[k].before

\* C9: a variable pass that follows a variable pass on the same file, with the
\* same warnings, leaves the text as it is.
C9_SecondPassChangesNothing ==
    \A k \in 1..(Len(hist) - 1) :
        (hist[k].op = "variables" /\ hist[k + 1].op = "variables") =>
            /\ hist[k + 1].before = hist[k].after
            /\ hist[k + 1].after = hist[k + 1].before

\* Two variable passes in a row, the first of which renamed V to _V.
C9_Witness ==
    \E k \in 1..(Len(hist) - 1) : \E name \in VarNames :
        /\ hist[k].op = "variables"
        /\ hist[k + 1].op = "variables"
        /\ OnlyVarWarning(name)
        /\ hist[k].after # hist[k].before
        /\ Contains(hist[k + 1].after, "_" \o name)

=============================================================================
